---- MODULE Spec2Model ----
(***************************************************************************)
(* Lambda@Edge viewer-request handler of the applicant portal              *)
(* (src/unnamed/part_001): Cognito JWT authentication at the CDN edge.     *)
(*                                                                         *)
(* One execution sandbox is modelled.  Its module-level state is the       *)
(* config cache (cachedConfig) and the JWKS client cache                   *)
(* (jwksClientCache); handler invocations run in the slots Invs and        *)
(* interleave only at their two suspension points, the SSM GetParameter    *)
(* call and the JWKS fetch.                                                *)
(*                                                                         *)
(* Strings are sequences of lexical pieces: "/dashboard" is                *)
(* <<"/", "dashboard">>, "a=1" is <<"a", "=", "1">>.  A JavaScript object  *)
(* is a record, null is Null, undefined is Undefined.                      *)
(* One time unit is 600 000 ms.                                            *)
(***************************************************************************)
EXTENDS Integers, Sequences, FiniteSets, TLC

\* Number of invocation slots of the sandbox (concurrent invocations).
MaxInv == 2
\* Last instant of the clock.
MaxTime == 2
\* cacheMaxAge: 600_000 ms, one time unit.
CacheMaxAge == 1
\* Longest error code and error description the identity provider reports,
\* in lexical pieces.
MaxErrLen == 3
\* Longest raw company name, in characters.
MaxNameLen == 4
\* Lifetime of the session cookies: 12 * 60 * 60 * 1000 ms, in time units.
SessionLifetime == 72

Invs == 1..MaxInv

Undefined == "<undefined>"
Null == [isNull |-> TRUE]

-----------------------------------------------------------------------------
(* Values of the environment: configs in the parameter store, key sets.    *)

ConfigFields == {"userPoolId", "clientId", "region", "cognitoDomainPrefix", "appDomain"}

\* The config the stack writes to the parameter store.
CfgA ==
  [userPoolId |-> "us-east-1_poolA", clientId |-> "clientA", region |-> "us-east-1",
   cognitoDomainPrefix |-> "acme", appDomain |-> "apply.acme.com"]
\* The config after a redeployment that replaced the user pool and client.
CfgB ==
  [userPoolId |-> "us-east-1_poolB", clientId |-> "clientB", region |-> "us-east-1",
   cognitoDomainPrefix |-> "acme", appDomain |-> "apply.acme.com"]
\* What JSON.parse("{}") yields: an object on which every field reads undefined.
CfgEmpty == [f \in ConfigFields |-> Undefined]

\* Texts the parameter may hold.
JsonA == "json:CfgA"
JsonB == "json:CfgB"
JsonEmptyObject == "{}"
JsonNull == "null"
NotJson == "{not json"
ParamTexts == {JsonA, JsonB, JsonEmptyObject, JsonNull, NotJson, ""}

SyntaxError == [syntaxError |-> TRUE]

\* JSON.parse of the parameter text.
JSONParse(text) ==
  CASE text = JsonA -> CfgA
    [] text = JsonB -> CfgB
    [] text = JsonEmptyObject -> CfgEmpty
    [] text = JsonNull -> Null
    [] OTHER -> SyntaxError

\* What ssm.send resolves to (or rejects with).
SsmResults ==
  {[rejected |-> TRUE, hasParameter |-> FALSE, value |-> ""],
   [rejected |-> FALSE, hasParameter |-> FALSE, value |-> ""]}
  \cup {[rejected |-> FALSE, hasParameter |-> TRUE, value |-> t] : t \in ParamTexts}

\* JavaScript truthiness of a loaded config value.
Truthy(v) == v # Null

\* Signing keys and key ids of the two user pools; Forged is an attacker's key.
KeyA == "keyA"
KeyB == "keyB"
Forged == "forgedKey"
KidA == "kidA"
KidB == "kidB"
NoKid == Undefined

\* jwksUri built by getJwksClient.
JwksUri(config) ==
  <<"https://cognito-idp.", config.region, ".amazonaws.com/", config.userPoolId,
    "/.well-known/jwks.json">>

\* Issuer built by verifyToken.
IssuerOf(config) ==
  <<"https://cognito-idp.", config.region, ".amazonaws.com/", config.userPoolId>>

\* Key of jwksClientCache.
CacheKey(config) == <<config.region, ":", config.userPoolId>>

\* The key document published at a jwksUri: key id -> public key.  An
\* endpoint that does not exist publishes nothing (every fetch of it fails).
JwksDocument(uri) ==
  CASE uri = JwksUri(CfgA) -> [kid \in {KidA} |-> KeyA]
    [] uri = JwksUri(CfgB) -> [kid \in {KidB} |-> KeyB]
    [] OTHER -> [kid \in {} |-> KeyA]

EndpointExists(uri) == uri \in {JwksUri(CfgA), JwksUri(CfgB)}

-----------------------------------------------------------------------------
(* Tokens, cookies and requests that arrive at the edge.                   *)

\* A cookie value as it appears in the header.  fmt "jwt" is a string of the
\* form header.payload.signature; signedBy is the key whose signature it
\* carries; fmt "opaque" is any other non-empty string, "empty" is "".
TokenOf(config, kid, key, exp, email) ==
  [fmt |-> "jwt", kid |-> kid, signedBy |-> key, iss |-> IssuerOf(config),
   aud |-> config.clientId, exp |-> exp, email |-> email]

UserEmail == "user@acme.com"
ValidA == TokenOf(CfgA, KidA, KeyA, MaxTime, UserEmail)
ValidB == TokenOf(CfgB, KidB, KeyB, MaxTime, UserEmail)
OpaqueToken == [ValidA EXCEPT !.fmt = "opaque"]
EmptyToken == [ValidA EXCEPT !.fmt = "empty"]
\* What extractToken returns when there is no such cookie.
NoToken == [ValidA EXCEPT !.fmt = "null"]

\* ValidA and every token that differs from it in one respect.
TokensA ==
  {ValidA,
   [ValidA EXCEPT !.email = Undefined],
   [ValidA EXCEPT !.exp = 0],
   [ValidA EXCEPT !.signedBy = Forged],
   [ValidA EXCEPT !.iss = IssuerOf(CfgB)],
   [ValidA EXCEPT !.aud = CfgB.clientId],
   [ValidA EXCEPT !.kid = NoKid],
   [ValidA EXCEPT !.kid = KidB],
   OpaqueToken, EmptyToken}

Tokens == TokensA \cup {ValidB}

\* Name of the id-token cookie of an app client.
IdTokenCookieName(clientId) ==
  <<"CognitoIdentityServiceProvider", ".", clientId, ".", "idToken">>

OtherCookie == [name |-> <<"theme">>, value |-> OpaqueToken]
IdCookie(clientId, token) == [name |-> IdTokenCookieName(clientId), value |-> token]

\* The cookie header: absent, or the list of name=value pairs it spells.
NoCookieHeader == [present |-> FALSE, pairs |-> << >>]
CookieHeader(pairs) == [present |-> TRUE, pairs |-> pairs]

CookieHeaders ==
  {NoCookieHeader, CookieHeader(<<OtherCookie>>)}
  \cup {CookieHeader(<<OtherCookie, IdCookie(CfgA.clientId, t)>>) : t \in TokensA}
  \cup {CookieHeader(<<IdCookie(CfgB.clientId, t)>>) : t \in {ValidA, ValidB}}

\* The x-auth-email header as the caller may send it.
NoHeader == [present |-> FALSE, key |-> "", value |-> ""]
SpoofedEmail == "admin@acme.com"
SpoofedHeader == [present |-> TRUE, key |-> "x-auth-email", value |-> SpoofedEmail]

ErrorPage == <<"/", "error.html">>
CallbackPath == <<"/", "oauth2", "/", "callback">>
RootPath == <<"/">>
DashboardPath == <<"/", "dashboard">>
DocsPath == <<"/", "docs", "/">>

NoQuery == << >>
SomeQuery == <<"a", "=", "1">>
ErrorQuery == <<"error", "=", "access_denied">>
ErrorDescQuery ==
  <<"error", "=", "access_denied", "&", "error_description", "=", "User", "%20", "cancelled">>
EmptyErrorQuery == <<"error", "=">>

Req(uri, qs, cookieHeader, xAuth) ==
  [uri |-> uri, querystring |-> qs, method |-> "GET",
   headers |-> [cookie |-> cookieHeader, xAuthEmail |-> xAuth,
                host |-> "apply.acme.com"]]

Paths == {ErrorPage, CallbackPath, RootPath, DashboardPath, DocsPath}
Queries == {NoQuery, SomeQuery, ErrorQuery, ErrorDescQuery, EmptyErrorQuery}

\* The requests the model sends to the handler: every path with every
\* cookie header and either x-auth-email header, and every path with every
\* query string.
Requests ==
  {Req(u, NoQuery, c, x) :
     u \in Paths, c \in CookieHeaders, x \in {NoHeader, SpoofedHeader}}
  \cup {Req(u, q, c, NoHeader) :
          u \in Paths, q \in Queries,
          c \in {NoCookieHeader,
                 CookieHeader(<<OtherCookie, IdCookie(CfgA.clientId, ValidA)>>)}}

\* The requests that arrive while several invocations share the sandbox.
ConcurrentRequests ==
  {Req(DashboardPath, NoQuery, NoCookieHeader, NoHeader),
   Req(DashboardPath, NoQuery,
       CookieHeader(<<OtherCookie, IdCookie(CfgA.clientId, ValidA)>>), NoHeader),
   Req(RootPath, NoQuery,
       CookieHeader(<<OtherCookie, IdCookie(CfgA.clientId, [ValidA EXCEPT !.email = Undefined])>>),
       SpoofedHeader),
   Req(CallbackPath, NoQuery, NoCookieHeader, NoHeader),
   Req(ErrorPage, NoQuery, NoCookieHeader, SpoofedHeader)}

\* The traffic of a sandbox: every request when invocations run one at a
\* time, the requests above when they overlap.
Traffic(n) == IF n = 1 THEN Requests ELSE ConcurrentRequests

\* The pieces of the error texts an identity provider (or whoever forges its
\* redirect) may report: the five characters escapeHtml rewrites, and text.
HtmlPieces == {"script", "lt;", "&", "<", ">", "\"", "'"}

\* The strings of at most n pieces.
StringsUpTo(n) == UNION {[1..k -> HtmlPieces] : k \in 0..n}

\* A string as the redirect carries it in the query string.
QueryEncode(s) ==
  [k \in DOMAIN s |->
     CASE s[k] = "&" -> "%26"
       [] s[k] = "<" -> "%3C"
       [] s[k] = ">" -> "%3E"
       [] s[k] = "\"" -> "%22"
       [] s[k] = "'" -> "%27"
       [] OTHER -> s[k]]

\* The query string of a callback that reports error e with description d.
ErrorCallbackQuery(e, d) ==
  <<"error", "=">> \o QueryEncode(e)
    \o (IF d = << >> THEN << >>
        ELSE <<"&", "error_description", "=">> \o QueryEncode(d))

AccessDenied == <<"access_denied">>

\* The error callbacks: every error code alone, with itself as description,
\* and every description under the code access_denied.
ErrorCallbacks ==
  {Req(CallbackPath, ErrorCallbackQuery(e, << >>), NoCookieHeader, NoHeader) :
     e \in StringsUpTo(MaxErrLen) \ {<< >>}}
  \cup {Req(CallbackPath, ErrorCallbackQuery(e, e), NoCookieHeader, NoHeader) :
          e \in StringsUpTo(MaxErrLen) \ {<< >>}}
  \cup {Req(CallbackPath, ErrorCallbackQuery(AccessDenied, d), NoCookieHeader, NoHeader) :
          d \in StringsUpTo(MaxErrLen)}

-----------------------------------------------------------------------------
(* Library and helper functions.                                           *)

\* s.replace(/from/g, to), where to is a string (a sequence of pieces).
RECURSIVE ReplaceAll(_, _, _)
ReplaceAll(s, from, to) ==
  IF s = << >> THEN << >>
  ELSE (IF Head(s) = from THEN to ELSE <<Head(s)>>) \o ReplaceAll(Tail(s), from, to)

\* Mutant: the ampersand is replaced last, after the entities were written.
escapeHtml_AmpersandLast(raw) ==
  ReplaceAll(
    ReplaceAll(
      ReplaceAll(
        ReplaceAll(
          ReplaceAll(raw, "<", <<"&", "lt;">>),
          ">", <<"&", "gt;">>),
        "\"", <<"&", "quot;">>),
      "'", <<"&", "#39;">>),
    "&", <<"&", "amp;">>)

escapeHtml(raw) ==
  ReplaceAll(
    ReplaceAll(
      ReplaceAll(
        ReplaceAll(
          ReplaceAll(raw, "&", <<"&", "amp;">>),
          "<", <<"&", "lt;">>),
        ">", <<"&", "gt;">>),
      "\"", <<"&", "quot;">>),
    "'", <<"&", "#39;">>)

\* Index of the first occurrence of piece c in s, or 0.
IndexOf(s, c) ==
  IF \E k \in DOMAIN s : s[k] = c
  THEN CHOOSE k \in DOMAIN s : s[k] = c /\ \A j \in 1..(k - 1) : s[j] # c
  ELSE 0

\* The pieces of s split at every occurrence of sep.
RECURSIVE SplitOn(_, _)
SplitOn(s, sep) ==
  IF IndexOf(s, sep) = 0 THEN <<s>>
  ELSE <<SubSeq(s, 1, IndexOf(s, sep) - 1)>>
         \o SplitOn(SubSeq(s, IndexOf(s, sep) + 1, Len(s)), sep)

\* Percent- and plus-decoding of a query component.
PercentDecode(c) ==
  CASE c \in {"%20", "+"} -> " "
    [] c = "%26" -> "&"
    [] c = "%3C" -> "<"
    [] c = "%3E" -> ">"
    [] c = "%22" -> "\""
    [] c = "%27" -> "'"
    [] OTHER -> c
UrlDecode(s) == [k \in DOMAIN s |-> PercentDecode(s[k])]

\* new URLSearchParams(qs): the list of decoded [name, value] pairs.
URLSearchParams(qs) ==
  LET segs == SelectSeq(SplitOn(qs, "&"), LAMBDA g : g # << >>)
      Pair(g) ==
        IF IndexOf(g, "=") = 0
        THEN [name |-> UrlDecode(g), value |-> << >>]
        ELSE [name |-> UrlDecode(SubSeq(g, 1, IndexOf(g, "=") - 1)),
              value |-> UrlDecode(SubSeq(g, IndexOf(g, "=") + 1, Len(g)))]
  IN [k \in DOMAIN segs |-> Pair(segs[k])]

\* params.get(name): the first value under that name, or null.
ParamsGet(params, name) ==
  IF \E k \in DOMAIN params : params[k].name = name
  THEN [isNull |-> FALSE,
        value |-> params[CHOOSE k \in DOMAIN params :
                           /\ params[k].name = name
                           /\ \A j \in 1..(k - 1) : params[j].name # name].value]
  ELSE [isNull |-> TRUE, value |-> << >>]

\* cookie.parse(header)[name]: the first pair of that name, or undefined.
CookieParse(pairs, name) ==
  IF \E k \in DOMAIN pairs : pairs[k].name = name
  THEN pairs[CHOOSE k \in DOMAIN pairs :
               /\ pairs[k].name = name
               /\ \A j \in 1..(k - 1) : pairs[j].name # name].value
  ELSE NoToken

\* Mutant: only the root is taken for a directory.
EndsWithSlash_RootOnly(uri) == uri = <<"/">>

\* uri.endsWith('/')
EndsWithSlash(uri) == uri # << >> /\ uri[Len(uri)] = "/"

\* encodeURIComponent: reserved pieces become their percent escapes.
PercentEscape(c) ==
  CASE c = "/" -> "%2F"
    [] c = ":" -> "%3A"
    [] c = "?" -> "%3F"
    [] c = "=" -> "%3D"
    [] c = "&" -> "%26"
    [] c = "https://" -> "https%3A%2F%2F"
    [] c = "%20" -> "%2520"
    [] OTHER -> c
encodeURIComponent(s) == [k \in DOMAIN s |-> PercentEscape(s[k])]

\* Values a function call yields: a value, or a thrown error.
Ok(v) == [threw |-> FALSE, value |-> v]
Throw(e) == [threw |-> TRUE, error |-> e]

\* What the handler's promise settles to.
NoResult == [kind |-> "none"]
ReturnRequest(r) == [kind |-> "request", request |-> r]
ReturnResponse(resp) == [kind |-> "response", response |-> resp]
Rejected(e) == [kind |-> "error", error |-> e]

-----------------------------------------------------------------------------
(* The functions of the handler module.                                    *)

TypeError == "TypeError"

\* !token
Falsy(token) == token.fmt \in {"null", "empty"}

\* Mutant: the cookie is looked up by its suffix, whatever client id it names.
extractToken_AnyClient(request, config) ==
  LET cookieHeader == request.headers.cookie
      ids == {k \in DOMAIN cookieHeader.pairs :
                cookieHeader.pairs[k].name[Len(cookieHeader.pairs[k].name)] = "idToken"}
  IN IF ~cookieHeader.present \/ cookieHeader.pairs = << >> THEN Ok(NoToken)
     ELSE IF config = Null THEN Throw(TypeError)
     ELSE IF ids = {} THEN Ok(NoToken)
     ELSE Ok(cookieHeader.pairs[CHOOSE k \in ids : \A j \in ids : k <= j].value)

\* Mutant: a cookie header without the named cookie is an error.
extractToken_RequiresCookie(request, config) ==
  LET cookieHeader == request.headers.cookie
  IN IF ~cookieHeader.present \/ cookieHeader.pairs = << >> THEN Ok(NoToken)
     ELSE IF config = Null THEN Throw(TypeError)
     ELSE IF CookieParse(cookieHeader.pairs, IdTokenCookieName(config.clientId)) = NoToken
     THEN Throw("Error")
     ELSE Ok(CookieParse(cookieHeader.pairs, IdTokenCookieName(config.clientId)))

\* return cookies[`CognitoIdentityServiceProvider.${config.clientId}.idToken`] ?? null
extractToken(request, config) ==
  LET cookieHeader == request.headers.cookie
  IN IF ~cookieHeader.present \/ cookieHeader.pairs = << >> THEN Ok(NoToken)
     ELSE IF config = Null THEN Throw(TypeError)
     ELSE Ok(CookieParse(cookieHeader.pairs, IdTokenCookieName(config.clientId)))

\* The URL the caller asked for, as redirectToLogin rebuilds it.
OriginalUrl(request, config) ==
  <<"https://", config.appDomain>> \o request.uri
    \o (IF request.querystring # << >> THEN <<"?">> \o request.querystring ELSE << >>)

LoginUrl(request, config) ==
  <<"https://", config.cognitoDomainPrefix, ".auth.", config.region,
    ".amazoncognito.com", "/oauth2/authorize",
    "?client_id=", config.clientId,
    "&response_type=", "token",
    "&scope=", "openid+email+profile",
    "&redirect_uri=", "https://", config.appDomain, "/oauth2/callback",
    "&state=">> \o encodeURIComponent(OriginalUrl(request, config))

\* Mutant: the redirect is sent with a cacheable directive.
redirectToLogin_Cacheable(request, config) ==
  IF config = Null THEN Throw(TypeError)
  ELSE Ok([status |-> "302", statusDescription |-> "Found",
           headers |-> [location |-> [key |-> "Location",
                                      value |-> LoginUrl(request, config)],
                        cacheControl |-> [key |-> "Cache-Control",
                                          value |-> "no-cache"]]])

redirectToLogin(request, config) ==
  IF config = Null THEN Throw(TypeError)
  ELSE Ok([status |-> "302", statusDescription |-> "Found",
           headers |-> [location |-> [key |-> "Location",
                                      value |-> LoginUrl(request, config)],
                        cacheControl |-> [key |-> "Cache-Control",
                                          value |-> "no-store"]]])

\* Body of the 400 page.
ErrorBody(safeError, safeDesc) ==
  <<"<h1>Authentication Error</h1><p>">> \o safeError
    \o (IF safeDesc # << >> THEN <<": ">> \o safeDesc ELSE << >>)
    \o <<"</p><p><a href=\"/\">Return to home</a></p>">>

\* Body of the 200 page: the sign-in script and the constants inlined in it.
SignInBody(config) ==
  [page |-> "Signing in...",
   CLIENT_ID |-> config.clientId,
   APP_DOMAIN |-> config.appDomain,
   FALLBACK_URL |-> <<"https://", config.appDomain, "/">>]

handleOAuthCallback(request, config) ==
  LET params == URLSearchParams(request.querystring)
      error == ParamsGet(params, <<"error">>)
      desc == ParamsGet(params, <<"error_description">>)
  IN IF ~error.isNull /\ error.value # << >>
     THEN Ok([status |-> "400", statusDescription |-> "Bad Request",
              headers |-> [contentType |-> [key |-> "Content-Type",
                                            value |-> "text/html; charset=utf-8"]],
              body |-> ErrorBody(escapeHtml(error.value),
                                 escapeHtml(IF desc.isNull THEN << >> ELSE desc.value))])
     ELSE IF config = Null THEN Throw(TypeError)
     ELSE Ok([status |-> "200", statusDescription |-> "OK",
              headers |-> [contentType |-> [key |-> "Content-Type",
                                            value |-> "text/html; charset=utf-8"],
                           cacheControl |-> [key |-> "Cache-Control",
                                             value |-> "no-store"]],
              body |-> SignInBody(config)])

\* jwt.decode(token, {complete: true}): null unless the string is a JWT.
jwtDecode(token) ==
  IF token.fmt = "jwt"
  THEN [isNull |-> FALSE, header |-> [kid |-> token.kid]]
  ELSE [isNull |-> TRUE, header |-> [kid |-> Undefined]]

\* Mutant: jwt.verify called with ignoreExpiration.
jwtVerify_NoExpiry(token, publicKey, issuer, audience, t) ==
  IF token.signedBy # publicKey THEN Throw("invalid signature")
  ELSE IF audience # Undefined /\ token.aud # audience THEN Throw("jwt audience invalid")
  ELSE IF token.iss # issuer THEN Throw("jwt issuer invalid")
  ELSE Ok([iss |-> token.iss, aud |-> token.aud, exp |-> token.exp,
           email |-> token.email])

\* jwt.verify(token, publicKey, {issuer, audience}) at clock time t.
jwtVerify(token, publicKey, issuer, audience, t) ==
  IF token.signedBy # publicKey THEN Throw("invalid signature")
  ELSE IF t >= token.exp THEN Throw("jwt expired")
  ELSE IF audience # Undefined /\ token.aud # audience THEN Throw("jwt audience invalid")
  ELSE IF token.iss # issuer THEN Throw("jwt issuer invalid")
  ELSE Ok([iss |-> token.iss, aud |-> token.aud, exp |-> token.exp,
           email |-> token.email])

\* jwksClient({jwksUri, cache: true, cacheMaxAge}): a client with no key cached.
NewJwksClient(config) ==
  [jwksUri |-> JwksUri(config), keys |-> [k \in {} |-> [key |-> "", at |-> 0]]]

\* getJwksClient: the cache after the call (the client is cache[CacheKey(config)]).
getJwksClient(config, cache) ==
  IF CacheKey(config) \in DOMAIN cache THEN cache
  ELSE [k \in DOMAIN cache \cup {CacheKey(config)} |->
          IF k = CacheKey(config) THEN NewJwksClient(config) ELSE cache[k]]

\* Mutant: a cached key never goes stale.
CacheHit_NeverStale(client, kid, t) ==
  kid \in DOMAIN client.keys

\* Whether the client holds a key for kid that has not outlived cacheMaxAge.
CacheHit(client, kid, t) ==
  kid \in DOMAIN client.keys /\ t - client.keys[kid].at <= CacheMaxAge

\* The client after it cached the key fetched for kid at time t.
CacheKeyFor(client, kid, key, t) ==
  [client EXCEPT !.keys =
     [k \in DOMAIN client.keys \cup {kid} |->
        IF k = kid THEN [key |-> key, at |-> t] ELSE client.keys[k]]]

\* The x-auth-email header the handler sets.
AuthEmailHeader(payload) ==
  [present |-> TRUE, key |-> "X-Auth-Email",
   value |-> IF payload.email = Undefined THEN "unknown" ELSE payload.email]

-----------------------------------------------------------------------------
(* State.                                                                  *)

VARIABLES
  cachedConfig,     \* module-level: the config cache, Null while empty
  jwksClientCache,  \* module-level: cache key -> JWKS client (uri, cached keys)
  paramName,        \* process.env.COGNITO_CONFIG_PARAM, inlined at bundle time
  concurrency,      \* how many invocations the platform runs at once in the sandbox
  now,              \* the clock
  pc,               \* per invocation: where the handler is suspended
  arrived,          \* per invocation: the request as the CDN delivered it
  request,          \* per invocation: event.Records[0].cf.request (mutable)
  config,           \* per invocation: the handler's local const config
  token,            \* per invocation: the handler's local const token
  fetching,         \* per invocation: URL of its pending key-document fetch
  result,           \* per invocation: what the handler's promise settled to
  ssmCalls,         \* per invocation: GetParameter calls it issued
  jwksCalls,        \* per invocation: key-document fetches it issued
  ssmAnswer,        \* per invocation: what its GetParameter call answered
  jwksAnswer,       \* per invocation: how its key-document fetch ended
  hit,              \* per invocation: what cachedConfig held when it called loadConfig
  late,             \* per invocation: it called loadConfig after a successful load
  verification,     \* per invocation: the jwt.verify call it made
  firstLoaded,      \* sandbox: the config the first successful loadConfig returned
  coldCalls,        \* sandbox: GetParameter calls issued before that first return
  page,             \* browser: the callback page it loaded (the script's constants)
  hash,             \* browser: window.location.hash of the callback URL
  scriptPc,         \* browser: where the page's script is
  documentCookie,   \* browser: the cookies the script wrote, in order
  timer,            \* browser: the URL of the navigation setTimeout scheduled
  href,             \* browser: the URL window.location.href was set to
  errText,          \* browser: text of the #err element
  raw,              \* synth: the companyName read from the CDK context
  once,             \* synth: normalizeCompanyName(raw)
  twice,            \* synth: normalizeCompanyName of that result
  passes            \* synth: how many times the name was normalized

sandboxVars ==
  <<cachedConfig, jwksClientCache, paramName, concurrency, now, firstLoaded, coldCalls>>
frameVars ==
  <<pc, arrived, request, config, token, fetching, result, ssmCalls, jwksCalls,
    ssmAnswer, jwksAnswer, hit, late, verification>>
browserVars == <<page, hash, scriptPc, documentCookie, timer, href, errText>>
synthVars == <<raw, once, twice, passes>>
vars == <<sandboxVars, frameVars, browserVars, synthVars>>

ParamName == "/acme/applicant-portal/cognito-config"

Unset == [isUnset |-> TRUE]
NoFetch == << >>
NoAnswer == [rejected |-> FALSE, hasParameter |-> FALSE, value |-> "<no call>"]
NoRequest == Req(<< >>, << >>, NoCookieHeader, NoHeader)
NoVerification ==
  [called |-> FALSE, at |-> 0, key |-> "", fetchedAt |-> 0, issuer |-> << >>,
   audience |-> "", passed |-> FALSE]

\* The values a successful load can return: objects, not null.
IsConfigObject(v) == v \notin {Null, Unset, SyntaxError}

\* No browser has loaded the callback page.
NoPage == [page |-> "about:blank", CLIENT_ID |-> "", APP_DOMAIN |-> "", FALLBACK_URL |-> << >>]
NoUrl == << >>
NoParam == [isNull |-> TRUE, value |-> << >>]
NoFragment == [id_token |-> NoToken, access_token |-> NoToken, state |-> NoParam,
               other |-> FALSE]
NoBrowser ==
  /\ page = NoPage
  /\ hash = NoFragment
  /\ scriptPc = "none"
  /\ documentCookie = << >>
  /\ timer = NoUrl
  /\ href = NoUrl
  /\ errText = ""

\* No stack is being synthesized.
NoSynth ==
  /\ raw = << >>
  /\ once = << >>
  /\ twice = << >>
  /\ passes = 0

Init ==
  /\ NoBrowser
  /\ NoSynth
  /\ cachedConfig = Null
  /\ jwksClientCache = [k \in {} |-> NewJwksClient(CfgA)]
  /\ paramName \in {ParamName, Undefined}
  /\ concurrency \in Invs
  /\ now = 0
  /\ firstLoaded = Unset
  /\ coldCalls = 0
  /\ pc = [i \in Invs |-> "idle"]
  /\ arrived = [i \in Invs |-> NoRequest]
  /\ request = [i \in Invs |-> NoRequest]
  /\ config = [i \in Invs |-> Unset]
  /\ token = [i \in Invs |-> NoToken]
  /\ fetching = [i \in Invs |-> NoFetch]
  /\ result = [i \in Invs |-> NoResult]
  /\ ssmCalls = [i \in Invs |-> 0]
  /\ jwksCalls = [i \in Invs |-> 0]
  /\ ssmAnswer = [i \in Invs |-> NoAnswer]
  /\ jwksAnswer = [i \in Invs |-> "none"]
  /\ hit = [i \in Invs |-> Null]
  /\ late = [i \in Invs |-> FALSE]
  /\ verification = [i \in Invs |-> NoVerification]

-----------------------------------------------------------------------------
(* The handler, cut at its suspension points.  A step is what one run of   *)
(* the handler does between two suspensions: the new program point, the    *)
(* request object, the locals, the JWKS client cache and the settlement.   *)

Settled(req, tok, res, cache, ver) ==
  [pc |-> "done", request |-> req, token |-> tok, result |-> res, cache |-> cache,
   fetching |-> NoFetch, verification |-> ver]

\* return redirectToLogin(request, config)
LoginRedirect(req, cfg) ==
  LET r == redirectToLogin(req, cfg)
  IN IF r.threw THEN Rejected(r.error) ELSE ReturnResponse(r.value)

\* Mutant: the header is set from a payload kept in a variable that the
\* invocations of a sandbox share, here the payload of the first slot's token.
VerifyWithKey_SharedPayload(req, cfg, tok, publicKey, cache, t) ==
  LET issuer == IssuerOf(cfg)
      audience == cfg.clientId
      v == jwtVerify(tok, publicKey, issuer, audience, t)
      ver == [called |-> TRUE, at |-> t, key |-> publicKey,
              fetchedAt |-> cache[CacheKey(cfg)].keys[tok.kid].at, issuer |-> issuer,
              audience |-> audience, passed |-> ~v.threw]
      forwarded == [req EXCEPT !.headers.xAuthEmail =
                                  AuthEmailHeader([email |-> token[1].email])]
  IN IF v.threw
     THEN Settled(req, tok, LoginRedirect(req, cfg), cache, ver)
     ELSE Settled(forwarded, tok, ReturnRequest(forwarded), cache, ver)

\* Mutant: the forwarded request's header map is rebuilt without the cookie.
VerifyWithKey_DropsCookie(req, cfg, tok, publicKey, cache, t) ==
  LET issuer == IssuerOf(cfg)
      audience == cfg.clientId
      v == jwtVerify(tok, publicKey, issuer, audience, t)
      ver == [called |-> TRUE, at |-> t, key |-> publicKey,
              fetchedAt |-> cache[CacheKey(cfg)].keys[tok.kid].at, issuer |-> issuer,
              audience |-> audience, passed |-> ~v.threw]
      forwarded == [req EXCEPT !.headers.xAuthEmail = AuthEmailHeader(v.value),
                               !.headers.cookie = NoCookieHeader]
  IN IF v.threw
     THEN Settled(req, tok, LoginRedirect(req, cfg), cache, ver)
     ELSE Settled(forwarded, tok, ReturnRequest(forwarded), cache, ver)

\* Mutant: the expected issuer and audience are read from the token itself.
VerifyWithKey_TokenIssuer(req, cfg, tok, publicKey, cache, t) ==
  LET issuer == tok.iss
      audience == tok.aud
      v == jwtVerify(tok, publicKey, issuer, audience, t)
      ver == [called |-> TRUE, at |-> t, key |-> publicKey,
              fetchedAt |-> cache[CacheKey(cfg)].keys[tok.kid].at, issuer |-> issuer,
              audience |-> audience, passed |-> ~v.threw]
      forwarded == [req EXCEPT !.headers.xAuthEmail = AuthEmailHeader(v.value)]
  IN IF v.threw
     THEN Settled(req, tok, LoginRedirect(req, cfg), cache, ver)
     ELSE Settled(forwarded, tok, ReturnRequest(forwarded), cache, ver)

\* verifyToken from jwt.verify on, and the rest of the handler's try/catch.
VerifyWithKey(req, cfg, tok, publicKey, cache, t) ==
  LET issuer == IssuerOf(cfg)
      audience == cfg.clientId
      v == jwtVerify(tok, publicKey, issuer, audience, t)
      ver == [called |-> TRUE, at |-> t, key |-> publicKey,
              fetchedAt |-> cache[CacheKey(cfg)].keys[tok.kid].at, issuer |-> issuer,
              audience |-> audience, passed |-> ~v.threw]
      forwarded == [req EXCEPT !.headers.xAuthEmail = AuthEmailHeader(v.value)]
  IN IF v.threw
     THEN Settled(req, tok, LoginRedirect(req, cfg), cache, ver)
     ELSE Settled(forwarded, tok, ReturnRequest(forwarded), cache, ver)

\* verifyToken up to the await of client.getSigningKey(kid).
VerifyToken(req, cfg, tok, cache, t) ==
  LET decoded == jwtDecode(tok)
      kid == decoded.header.kid
      cache2 == getJwksClient(cfg, cache)
      client == cache2[CacheKey(cfg)]
  IN IF decoded.isNull \/ kid = Undefined
     THEN Settled(req, tok, LoginRedirect(req, cfg), cache, NoVerification)
     ELSE IF CacheHit(client, kid, t)
     THEN VerifyWithKey(req, cfg, tok, client.keys[kid].key, cache2, t)
     ELSE [pc |-> "getSigningKey", request |-> req, token |-> tok,
           result |-> NoResult, cache |-> cache2, fetching |-> client.jwksUri,
           verification |-> NoVerification]

\* Mutant: a key-document fetch that failed is issued again.
KeyFetched_Retry(req, cfg, tok, cache, fetchOk, t) ==
  LET client == cache[CacheKey(cfg)]
      doc == JwksDocument(client.jwksUri)
      kid == tok.kid
  IN IF ~fetchOk
     THEN [pc |-> "getSigningKey", request |-> req, token |-> tok,
           result |-> NoResult, cache |-> cache, fetching |-> client.jwksUri,
           verification |-> NoVerification]
     ELSE IF kid \notin DOMAIN doc
     THEN Settled(req, tok, LoginRedirect(req, cfg), cache, NoVerification)
     ELSE VerifyWithKey(req, cfg, tok, doc[kid],
            [cache EXCEPT ![CacheKey(cfg)] = CacheKeyFor(client, kid, doc[kid], t)], t)

\* Mutant: an unknown key id is rethrown instead of caught.
KeyFetched_Propagate(req, cfg, tok, cache, fetchOk, t) ==
  LET client == cache[CacheKey(cfg)]
      doc == JwksDocument(client.jwksUri)
      kid == tok.kid
  IN IF ~fetchOk
     THEN Settled(req, tok, LoginRedirect(req, cfg), cache, NoVerification)
     ELSE IF kid \notin DOMAIN doc
     THEN Settled(req, tok, Rejected("SigningKeyNotFoundError"), cache, NoVerification)
     ELSE VerifyWithKey(req, cfg, tok, doc[kid],
            [cache EXCEPT ![CacheKey(cfg)] = CacheKeyFor(client, kid, doc[kid], t)], t)

\* The handler after the key-document fetch answered.
KeyFetched(req, cfg, tok, cache, fetchOk, t) ==
  LET client == cache[CacheKey(cfg)]
      doc == JwksDocument(client.jwksUri)
      kid == tok.kid
  IN IF ~fetchOk \/ kid \notin DOMAIN doc
     THEN Settled(req, tok, LoginRedirect(req, cfg), cache, NoVerification)
     ELSE VerifyWithKey(req, cfg, tok, doc[kid],
            [cache EXCEPT ![CacheKey(cfg)] = CacheKeyFor(client, kid, doc[kid], t)], t)

\* The handler after `await loadConfig()` on the callback path.
CallbackWithConfig(req, cfg, cache) ==
  LET r == handleOAuthCallback(req, cfg)
  IN Settled(req, NoToken,
             IF r.threw THEN Rejected(r.error) ELSE ReturnResponse(r.value),
             cache, NoVerification)

\* The handler after `await loadConfig()` on every other path.
AuthWithConfig(req, cfg, cache, t) ==
  LET tok == extractToken(req, cfg)
  IN IF tok.threw THEN Settled(req, NoToken, Rejected(tok.error), cache, NoVerification)
     ELSE IF Falsy(tok.value)
     THEN Settled(req, tok.value, LoginRedirect(req, cfg), cache, NoVerification)
     ELSE VerifyToken(req, cfg, tok.value, cache, t)

WithConfig(isCallback, req, cfg, cache, t) ==
  IF isCallback THEN CallbackWithConfig(req, cfg, cache)
  ELSE AuthWithConfig(req, cfg, cache, t)

\* Mutant: the error page is answered on the branch that loads the config first.
Route_ErrorPageLoadsConfig(uri) ==
  IF uri \in {ErrorPage, CallbackPath} THEN "callback" ELSE "auth"

\* Mutant: the error page is not exempted.
Route_NoPassthrough(uri) ==
  IF uri = CallbackPath THEN "callback" ELSE "auth"

\* Mutant: the callback path is compared with a wrong literal and never matches.
Route_NoCallback(uri) ==
  IF uri = ErrorPage THEN "passthrough" ELSE "auth"

\* The handler's dispatch on the URI: the first match wins.
Route(uri) ==
  IF uri = ErrorPage THEN "passthrough"
  ELSE IF uri = CallbackPath THEN "callback"
  ELSE "auth"

\* Mutant: the cached value is not consulted.
loadConfig_NoCache(cached, param) ==
  IF param = Undefined THEN [does |-> "throw", value |-> Null]
  ELSE [does |-> "send", value |-> Null]

\* Mutant: the cache is returned without testing that it holds anything.
loadConfig_ReturnsCache(cached, param) ==
  IF param = Undefined THEN [does |-> "throw", value |-> Null]
  ELSE [does |-> "return", value |-> cached]

\* loadConfig up to its await: the cached value, a throw, or the GetParameter call.
loadConfig(cached, param) ==
  IF Truthy(cached) THEN [does |-> "return", value |-> cached]
  ELSE IF param = Undefined THEN [does |-> "throw", value |-> Null]
  ELSE [does |-> "send", value |-> Null]

\* Mutant: a failed fetch falls back to a built-in config.
loadConfigResume_Fallback(res) ==
  IF res.rejected \/ ~res.hasParameter \/ res.value = "" THEN Ok(CfgA)
  ELSE IF JSONParse(res.value) = SyntaxError THEN Throw("SyntaxError")
  ELSE Ok(JSONParse(res.value))

\* loadConfig after ssm.send answered: the value it caches and returns, or a throw.
loadConfigResume(res) ==
  IF res.rejected THEN Throw("SSMError")
  ELSE IF ~res.hasParameter \/ res.value = "" THEN Throw("not found or empty")
  ELSE IF JSONParse(res.value) = SyntaxError THEN Throw("SyntaxError")
  ELSE Ok(JSONParse(res.value))

-----------------------------------------------------------------------------
(* Actions.                                                                *)

Min(a, b) == IF a < b THEN a ELSE b

\* Invocation i takes a step of the handler.
Take(i, step) ==
  /\ pc' = [pc EXCEPT ![i] = step.pc]
  /\ request' = [request EXCEPT ![i] = step.request]
  /\ token' = [token EXCEPT ![i] = step.token]
  /\ result' = [result EXCEPT ![i] = step.result]
  /\ fetching' = [fetching EXCEPT ![i] = step.fetching]
  /\ verification' = [verification EXCEPT ![i] = step.verification]
  /\ jwksClientCache' = step.cache
  /\ jwksCalls' = [jwksCalls EXCEPT ![i] = IF step.pc = "getSigningKey" THEN @ + 1 ELSE @]

Suspended(at, req) ==
  [pc |-> at, request |-> req, token |-> NoToken, result |-> NoResult,
   cache |-> jwksClientCache, fetching |-> NoFetch, verification |-> NoVerification]

\* The CDN invokes the handler with request r; it runs to its first
\* suspension or to its return.
HandlerStart(i, r) ==
  /\ pc[i] = "idle"
  /\ \A j \in 1..(i - 1) : pc[j] # "idle"
  /\ Cardinality({j \in Invs : pc[j] # "idle"}) < concurrency
  /\ arrived' = [arrived EXCEPT ![i] = r]
  /\ LET isCallback == Route(r.uri) = "callback"
         req == IF ~isCallback /\ EndsWithSlash(r.uri)
                THEN [r EXCEPT !.uri = r.uri \o <<"index.html">>]
                ELSE r
         call == loadConfig(cachedConfig, paramName)
     IN IF Route(r.uri) = "passthrough"
        THEN /\ Take(i, Settled(r, NoToken, ReturnRequest(r), jwksClientCache,
                                NoVerification))
             /\ UNCHANGED <<config, ssmCalls, hit, late, coldCalls>>
        ELSE /\ hit' = [hit EXCEPT ![i] = cachedConfig]
             /\ late' = [late EXCEPT ![i] = firstLoaded # Unset]
             /\ CASE call.does = "return" ->
                       /\ Take(i, WithConfig(isCallback, req, call.value,
                                             jwksClientCache, now))
                       /\ config' = [config EXCEPT ![i] = call.value]
                       /\ UNCHANGED <<ssmCalls, coldCalls>>
                  [] call.does = "throw" ->
                       /\ Take(i, Settled(req, NoToken,
                                          Rejected("COGNITO_CONFIG_PARAM is not set"),
                                          jwksClientCache, NoVerification))
                       /\ UNCHANGED <<config, ssmCalls, coldCalls>>
                  [] call.does = "send" ->
                       /\ Take(i, Suspended(IF isCallback THEN "callbackConfig"
                                            ELSE "authConfig", req))
                       /\ ssmCalls' = [ssmCalls EXCEPT ![i] = @ + 1]
                       /\ coldCalls' = IF firstLoaded = Unset
                                       THEN Min(coldCalls + 1, 2)
                                       ELSE coldCalls
                       /\ UNCHANGED config
  /\ UNCHANGED <<cachedConfig, paramName, concurrency, now, firstLoaded, ssmAnswer, jwksAnswer>>
  /\ UNCHANGED <<browserVars, synthVars>>

\* Mutant: a failed call leaves an empty object in the cache.
SsmResponse_CachesFailure(i, res) ==
  /\ pc[i] \in {"callbackConfig", "authConfig"}
  /\ ssmAnswer' = [ssmAnswer EXCEPT ![i] = res]
  /\ LET out == loadConfigResume(res)
     IN IF out.threw
        THEN /\ Take(i, Settled(request[i], NoToken, Rejected(out.error),
                                jwksClientCache, NoVerification))
             /\ cachedConfig' = CfgEmpty
             /\ UNCHANGED <<config, firstLoaded>>
        ELSE /\ cachedConfig' = out.value
             /\ config' = [config EXCEPT ![i] = out.value]
             /\ firstLoaded' = IF firstLoaded = Unset /\ IsConfigObject(out.value)
                               THEN out.value ELSE firstLoaded
             /\ Take(i, WithConfig(pc[i] = "callbackConfig", request[i], out.value,
                                   jwksClientCache, now))
  /\ UNCHANGED <<paramName, concurrency, now, coldCalls, arrived, ssmCalls, jwksAnswer, hit, late>>
  /\ UNCHANGED <<browserVars, synthVars>>

\* The parameter store answers invocation i's GetParameter call with res.
SsmResponse(i, res) ==
  /\ pc[i] \in {"callbackConfig", "authConfig"}
  /\ ssmAnswer' = [ssmAnswer EXCEPT ![i] = res]
  /\ LET out == loadConfigResume(res)
     IN IF out.threw
        THEN /\ Take(i, Settled(request[i], NoToken, Rejected(out.error),
                                jwksClientCache, NoVerification))
             /\ UNCHANGED <<cachedConfig, config, firstLoaded>>
        ELSE /\ cachedConfig' = out.value
             /\ config' = [config EXCEPT ![i] = out.value]
             /\ firstLoaded' = IF firstLoaded = Unset /\ IsConfigObject(out.value)
                               THEN out.value ELSE firstLoaded
             /\ Take(i, WithConfig(pc[i] = "callbackConfig", request[i], out.value,
                                   jwksClientCache, now))
  /\ UNCHANGED <<paramName, concurrency, now, coldCalls, arrived, ssmCalls, jwksAnswer, hit, late>>
  /\ UNCHANGED <<browserVars, synthVars>>

\* The identity provider answers invocation i's key-document fetch, or the
\* fetch fails in transport.
JwksResponse(i, fetchOk) ==
  /\ pc[i] = "getSigningKey"
  /\ fetchOk => EndpointExists(fetching[i])
  /\ jwksAnswer' = [jwksAnswer EXCEPT ![i] = IF fetchOk THEN "document" ELSE "failed"]
  /\ Take(i, KeyFetched(request[i], config[i], token[i], jwksClientCache, fetchOk, now))
  /\ UNCHANGED <<cachedConfig, paramName, concurrency, now, firstLoaded, coldCalls, arrived, config,
                 ssmCalls, ssmAnswer, hit, late>>
  /\ UNCHANGED <<browserVars, synthVars>>

\* The runtime takes the settled result; the slot is free for the next invocation.
Settle(i) ==
  /\ pc[i] = "done"
  /\ pc' = [pc EXCEPT ![i] = "idle"]
  /\ arrived' = [arrived EXCEPT ![i] = NoRequest]
  /\ request' = [request EXCEPT ![i] = NoRequest]
  /\ config' = [config EXCEPT ![i] = Unset]
  /\ token' = [token EXCEPT ![i] = NoToken]
  /\ fetching' = [fetching EXCEPT ![i] = NoFetch]
  /\ result' = [result EXCEPT ![i] = NoResult]
  /\ ssmCalls' = [ssmCalls EXCEPT ![i] = 0]
  /\ jwksCalls' = [jwksCalls EXCEPT ![i] = 0]
  /\ ssmAnswer' = [ssmAnswer EXCEPT ![i] = NoAnswer]
  /\ jwksAnswer' = [jwksAnswer EXCEPT ![i] = "none"]
  /\ hit' = [hit EXCEPT ![i] = Null]
  /\ late' = [late EXCEPT ![i] = FALSE]
  /\ verification' = [verification EXCEPT ![i] = NoVerification]
  /\ UNCHANGED sandboxVars
  /\ UNCHANGED <<browserVars, synthVars>>

\* Time passes.
Tick ==
  /\ now < MaxTime
  /\ now' = now + 1
  /\ UNCHANGED <<cachedConfig, jwksClientCache, paramName, concurrency, firstLoaded, coldCalls>>
  /\ UNCHANGED frameVars
  /\ UNCHANGED <<browserVars, synthVars>>

Next ==
  \/ \E i \in Invs, r \in Traffic(concurrency) : HandlerStart(i, r)
  \/ \E i \in Invs, res \in SsmResults : SsmResponse(i, res)
  \/ \E i \in Invs, fetchOk \in BOOLEAN : JwksResponse(i, fetchOk)
  \/ \E i \in Invs : Settle(i)
  \/ Tick

Spec == Init /\ [][Next]_vars

\* A sandbox, deployed with its parameter, that serves one request at a time.
InitSequential == Init /\ paramName = ParamName /\ concurrency = 1

\* The parameter store answers with the config the stack wrote.
SsmHolds(text) == [rejected |-> FALSE, hasParameter |-> TRUE, value |-> text]

\* The identity provider sends browsers back to the callback with an error.
NextErrorCallback ==
  \/ \E r \in ErrorCallbacks : HandlerStart(1, r)
  \/ SsmResponse(1, SsmHolds(JsonA))
  \/ Settle(1)
  \/ Tick

ErrorCallbackSpec == InitSequential /\ [][NextErrorCallback]_vars

\* A sandbox, deployed with its parameter, that runs invocations concurrently.
InitConcurrent == Init /\ paramName = ParamName /\ concurrency = MaxInv

\* Concurrent invocations while the parameter store holds the config the
\* stack wrote and returns it to every GetParameter call.
NextStableStore ==
  \/ \E i \in Invs, r \in ConcurrentRequests : HandlerStart(i, r)
  \/ \E i \in Invs : SsmResponse(i, SsmHolds(JsonA))
  \/ \E i \in Invs, fetchOk \in BOOLEAN : JwksResponse(i, fetchOk)
  \/ \E i \in Invs : Settle(i)
  \/ Tick

StableStoreSpec == InitConcurrent /\ [][NextStableStore]_vars

\* Concurrent invocations whose remote calls each return or fail: the
\* promise of an awaited call settles, and the event loop then resumes the
\* invocation that awaits it.
RemoteCallsSettle ==
  \A i \in Invs :
    /\ WF_vars(\E res \in SsmResults : SsmResponse(i, res))
    /\ WF_vars(\E fetchOk \in BOOLEAN : JwksResponse(i, fetchOk))

FairSpec == InitConcurrent /\ [][Next]_vars /\ RemoteCallsSettle

-----------------------------------------------------------------------------
(* The script of the 200 callback page, run by the browser that loaded it.  *)
(* The fragment of the callback URL is the record of its parameters:        *)
(* id_token and access_token (NoToken when absent), state, and whether it   *)
(* carries anything else.                                                   *)

SomeParam(v) == [isNull |-> FALSE, value |-> v]
DashboardUrl == <<"https://", CfgA.appDomain, "/", "dashboard">>
ForeignUrl == <<"https://", "evil.example", "/">>

\* The fragments a callback URL may carry.
Fragments ==
  [id_token : {NoToken, EmptyToken, ValidA, [ValidA EXCEPT !.exp = 0]},
   access_token : {NoToken, OpaqueToken},
   state : {NoParam, SomeParam(<< >>), SomeParam(DashboardUrl), SomeParam(ForeignUrl)},
   other : BOOLEAN]

\* window.location.hash.substring(1) is the empty string.
HashEmpty(h) ==
  h.id_token = NoToken /\ h.access_token = NoToken /\ h.state.isNull /\ ~h.other

\* Mutant: the cookies are scoped to a host other than the app's.
CookieOpts_OtherHost(appDomain, t) ==
  [domain |-> <<"auth.", appDomain>>, path |-> "/", secure |-> "",
   expires |-> t + SessionLifetime, SameSite |-> "Lax"]

\* opts: the attributes appended to each cookie the script writes at time t.
CookieOpts(appDomain, t) ==
  [domain |-> <<".", appDomain>>, path |-> "/", secure |-> "",
   expires |-> t + SessionLifetime, SameSite |-> "Lax"]

\* A string assigned to document.cookie.
CookieWrite(prefix, suffix, value, opts) ==
  [name |-> prefix \o <<".", suffix>>, value |-> value, attributes |-> opts]

\* Mutant: the script does not test the id_token it read.
CallbackScript_NoTokenCheck(pg, h, t) ==
  LET idToken == h.id_token
      accessToken == h.access_token
      redirectUrl == IF ~h.state.isNull /\ h.state.value # << >>
                     THEN h.state.value ELSE pg.FALLBACK_URL
      opts == CookieOpts(pg.APP_DOMAIN, t)
      prefix == <<"CognitoIdentityServiceProvider", ".", pg.CLIENT_ID>>
  IN IF HashEmpty(h)
     THEN [cookies |-> << >>, timer |-> NoUrl,
           err |-> "Error: No token data in URL fragment"]
     ELSE [cookies |-> <<CookieWrite(prefix, "idToken", idToken, opts)>>
                         \o (IF Falsy(accessToken) THEN << >>
                             ELSE <<CookieWrite(prefix, "accessToken", accessToken, opts)>>),
           timer |-> redirectUrl, err |-> ""]

\* The script's run on page pg with fragment h at time t: the cookies it
\* writes, the navigation it schedules and the error text it shows.
CallbackScript(pg, h, t) ==
  LET idToken == h.id_token
      accessToken == h.access_token
      redirectUrl == IF ~h.state.isNull /\ h.state.value # << >>
                     THEN h.state.value ELSE pg.FALLBACK_URL
      opts == CookieOpts(pg.APP_DOMAIN, t)
      prefix == <<"CognitoIdentityServiceProvider", ".", pg.CLIENT_ID>>
  IN IF HashEmpty(h)
     THEN [cookies |-> << >>, timer |-> NoUrl,
           err |-> "Error: No token data in URL fragment"]
     ELSE IF Falsy(idToken)
     THEN [cookies |-> << >>, timer |-> NoUrl, err |-> "Error: Missing id_token"]
     ELSE [cookies |-> <<CookieWrite(prefix, "idToken", idToken, opts)>>
                         \o (IF Falsy(accessToken) THEN << >>
                             ELSE <<CookieWrite(prefix, "accessToken", accessToken, opts)>>),
           timer |-> redirectUrl, err |-> ""]

\* The identity provider sends the browser to the callback URL with fragment
\* f; the browser loads the page the handler returns for it.
PageLoads(f) ==
  /\ scriptPc = "none"
  /\ page' = handleOAuthCallback(Req(CallbackPath, NoQuery, NoCookieHeader, NoHeader),
                                 CfgA).value.body
  /\ hash' = f
  /\ scriptPc' = "loaded"
  /\ UNCHANGED <<documentCookie, timer, href, errText>>
  /\ UNCHANGED <<sandboxVars, frameVars, synthVars>>

\* The page's script runs.
ScriptRuns ==
  /\ scriptPc = "loaded"
  /\ LET run == CallbackScript(page, hash, now)
     IN /\ documentCookie' = documentCookie \o run.cookies
        /\ timer' = run.timer
        /\ errText' = run.err
        /\ scriptPc' = IF run.timer = NoUrl THEN "failed" ELSE "scheduled"
  /\ UNCHANGED <<page, hash, href>>
  /\ UNCHANGED <<sandboxVars, frameVars, synthVars>>

\* The timeout fires: window.location.href = redirectUrl.
TimerFires ==
  /\ scriptPc = "scheduled"
  /\ href' = timer
  /\ scriptPc' = "navigated"
  /\ UNCHANGED <<page, hash, documentCookie, timer, errText>>
  /\ UNCHANGED <<sandboxVars, frameVars, synthVars>>

NextBrowser ==
  \/ \E f \in Fragments : PageLoads(f)
  \/ ScriptRuns
  \/ TimerFires
  \/ Tick

BrowserSpec == InitSequential /\ [][NextBrowser]_vars

-----------------------------------------------------------------------------
(* The login round trip: one browser, the handler and the hosted UI.        *)

\* idTokenValidity of the app client: 12 hours.
IdTokenValidity == 72

\* The inverse of encodeURIComponent, applied by the hosted UI to the state
\* parameter it received.
PercentUnescape(c) ==
  CASE c = "%2F" -> "/"
    [] c = "%3A" -> ":"
    [] c = "%3F" -> "?"
    [] c = "%3D" -> "="
    [] c = "%26" -> "&"
    [] c = "https%3A%2F%2F" -> "https://"
    [] c = "%2520" -> "%20"
    [] OTHER -> c
decodeURIComponent(s) == [k \in DOMAIN s |-> PercentUnescape(s[k])]

\* The cookies of the jar that a later write has not replaced: a write
\* replaces the cookie of the same name, domain and path.
LiveCookies(jar) ==
  SelectSeq([k \in DOMAIN jar |-> [at |-> k, c |-> jar[k]]],
            LAMBDA e : ~\E j \in (e.at + 1)..Len(jar) :
                          /\ jar[j].name = e.c.name
                          /\ jar[j].attributes.domain = e.c.attributes.domain
                          /\ jar[j].attributes.path = e.c.attributes.path)

\* The browser sends cookie c with a request to scheme://host at time t: the
\* domain covers the host, the cookie has not expired, and a secure cookie
\* goes over https only. The path "/" covers every request path.
CookieSent(c, scheme, host, t) ==
  /\ c.attributes.domain \in {<<".", host>>, <<host>>}
  /\ c.attributes.path = "/"
  /\ "secure" \in DOMAIN c.attributes => scheme = "https://"
  /\ c.attributes.expires > t

\* The viewer request the browser makes for url with its cookie jar.
RequestFor(url, jar, t) ==
  LET host == url[2]
      rest == SubSeq(url, 3, Len(url))
      q == IndexOf(rest, "?")
      uri == IF q = 0 THEN rest ELSE SubSeq(rest, 1, q - 1)
      qs == IF q = 0 THEN << >> ELSE SubSeq(rest, q + 1, Len(rest))
      sent == SelectSeq(LiveCookies(jar), LAMBDA e : CookieSent(e.c, url[1], host, t))
      pairs == [k \in DOMAIN sent |-> [name |-> sent[k].c.name, value |-> sent[k].c.value]]
  IN Req(uri, qs, IF pairs = << >> THEN NoCookieHeader ELSE CookieHeader(pairs),
         NoHeader)

\* The URLs a user opens in the app.
VisitedUrls ==
  {<<"https://", CfgA.appDomain>> \o u \o q :
     u \in {RootPath, DashboardPath, DocsPath},
     q \in {<< >>, <<"?">> \o SomeQuery, <<"?">> \o ErrorDescQuery}}

\* The session cookie of an earlier sign-in, whose token has expired since.
StaleSession ==
  /\ scriptPc = "none"
  /\ documentCookie = << >>
  /\ pc[1] = "idle"
  /\ documentCookie' =
       <<CookieWrite(<<"CognitoIdentityServiceProvider", ".", CfgA.clientId>>, "idToken",
                     [ValidA EXCEPT !.exp = 0], CookieOpts(CfgA.appDomain, 0))>>
  /\ UNCHANGED <<page, hash, scriptPc, timer, href, errText>>
  /\ UNCHANGED <<sandboxVars, frameVars, synthVars>>

\* The user opens url; the request reaches the handler.
Visit(url) ==
  /\ scriptPc = "none"
  /\ HandlerStart(1, RequestFor(url, documentCookie, now))

\* The browser follows the 302 to the hosted UI, the user signs in, and the
\* hosted UI sends the browser to the callback with a fresh id token, the
\* state it was given, and possibly an access token, in the fragment.
IdpReturns(accessToken) ==
  /\ scriptPc = "none"
  /\ pc[1] = "done"
  /\ result[1].kind = "response"
  /\ result[1].response.status = "302"
  /\ hash' = [id_token |-> [ValidA EXCEPT !.exp = now + IdTokenValidity],
              access_token |-> accessToken,
              state |-> SomeParam(decodeURIComponent(
                          LET loc == result[1].response.headers.location.value
                          IN SubSeq(loc, IndexOf(loc, "&state=") + 1, Len(loc)))),
              other |-> TRUE]
  /\ scriptPc' = "redirected"
  /\ UNCHANGED <<page, documentCookie, timer, href, errText>>
  /\ UNCHANGED <<sandboxVars, frameVars, synthVars>>

\* The browser requests the callback URL; the fragment stays in the browser.
CallbackRequest ==
  /\ scriptPc = "redirected"
  /\ HandlerStart(1, RequestFor(<<"https://", CfgA.appDomain>> \o CallbackPath,
                                documentCookie, now))

\* The browser loads the page the handler answered the callback with.
CallbackPageLoads ==
  /\ scriptPc = "redirected"
  /\ pc[1] = "done"
  /\ arrived[1].uri = CallbackPath
  /\ result[1].kind = "response"
  /\ page' = result[1].response.body
  /\ scriptPc' = "loaded"
  /\ UNCHANGED <<hash, documentCookie, timer, href, errText>>
  /\ UNCHANGED <<sandboxVars, frameVars, synthVars>>

\* The browser requests the URL the script navigated to.
FollowUp ==
  /\ scriptPc = "navigated"
  /\ HandlerStart(1, RequestFor(href, documentCookie, now))

\* A round trip while the parameter store and the key endpoint answer.
NextRoundTrip ==
  \/ StaleSession
  \/ \E url \in VisitedUrls : Visit(url)
  \/ SsmResponse(1, SsmHolds(JsonA))
  \/ JwksResponse(1, TRUE)
  \/ Settle(1)
  \/ \E accessToken \in {NoToken, OpaqueToken} : IdpReturns(accessToken)
  \/ CallbackRequest
  \/ CallbackPageLoads
  \/ ScriptRuns
  \/ TimerFires
  \/ FollowUp
  \/ Tick

RoundTripSpec == InitSequential /\ [][NextRoundTrip]_vars

-----------------------------------------------------------------------------
(* normalizeCompanyName (src/lib/config/portal-config.ts), which derives    *)
(* the slug the parameter name is built from.  A name is a sequence of      *)
(* characters.                                                              *)

Whitespace == {" ", "\t"}
NameChars == {"a", "B", "7", " ", "\t", "-", "."}
Names == UNION {[1..k -> NameChars] : k \in 0..MaxNameLen}

\* s.trim()
RECURSIVE TrimStart(_)
TrimStart(s) ==
  IF s # << >> /\ Head(s) \in Whitespace THEN TrimStart(Tail(s)) ELSE s
RECURSIVE TrimEnd(_)
TrimEnd(s) ==
  IF s # << >> /\ s[Len(s)] \in Whitespace THEN TrimEnd(SubSeq(s, 1, Len(s) - 1)) ELSE s
Trim(s) == TrimEnd(TrimStart(s))

\* s.toLowerCase()
ToLowerCase(s) == [k \in DOMAIN s |-> IF s[k] = "B" THEN "b" ELSE s[k]]

\* s.replace(/[^a-z0-9\s-]/g, '')
StripOthers(s) ==
  SelectSeq(s, LAMBDA c : c \in {"a", "b", "7", "-"} \cup Whitespace)

\* Length of the run of characters of class that s starts with.
RECURSIVE RunLength(_, _)
RunLength(s, class) ==
  IF s = << >> \/ Head(s) \notin class THEN 0 ELSE 1 + RunLength(Tail(s), class)

\* s.replace(/[class]{min,}/g, to)
RECURSIVE ReplaceRuns(_, _, _, _)
ReplaceRuns(s, class, min, to) ==
  IF s = << >> THEN << >>
  ELSE IF RunLength(s, class) >= min
  THEN to \o ReplaceRuns(SubSeq(s, RunLength(s, class) + 1, Len(s)), class, min, to)
  ELSE <<Head(s)>> \o ReplaceRuns(Tail(s), class, min, to)

\* Mutant: only the leading hyphen is removed.
TrimHyphens_LeadingOnly(s) ==
  IF s # << >> /\ Head(s) = "-" THEN Tail(s) ELSE s

\* s.replace(/^-|-$/g, '')
TrimHyphens(s) ==
  LET t == IF s # << >> /\ Head(s) = "-" THEN Tail(s) ELSE s
  IN IF t # << >> /\ t[Len(t)] = "-" THEN SubSeq(t, 1, Len(t) - 1) ELSE t

normalizeCompanyName(name) ==
  TrimHyphens(
    ReplaceRuns(
      ReplaceRuns(StripOthers(ToLowerCase(Trim(name))), Whitespace, 1, <<"-">>),
      {"-"}, 2, <<"-">>))

\* The CDK app reads companyName from its context.
ContextRead(name) ==
  /\ passes = 0
  /\ raw = << >>
  /\ name # << >>
  /\ raw' = name
  /\ UNCHANGED <<once, twice, passes>>
  /\ UNCHANGED <<sandboxVars, frameVars, browserVars>>

\* The name is normalized.
Normalize ==
  /\ passes = 0
  /\ once' = normalizeCompanyName(raw)
  /\ passes' = 1
  /\ UNCHANGED <<raw, twice>>
  /\ UNCHANGED <<sandboxVars, frameVars, browserVars>>

\* The normalized name is fed to the function again.
NormalizeAgain ==
  /\ passes = 1
  /\ twice' = normalizeCompanyName(once)
  /\ passes' = 2
  /\ UNCHANGED <<raw, once>>
  /\ UNCHANGED <<sandboxVars, frameVars, browserVars>>

NextSynth ==
  \/ \E name \in Names : ContextRead(name)
  \/ Normalize
  \/ NormalizeAgain

SynthSpec == InitSequential /\ [][NextSynth]_vars

-----------------------------------------------------------------------------
(* Vocabulary of the properties.                                           *)

Done(i) == pc[i] = "done"
Forwarded(i) == Done(i) /\ result[i].kind = "request"
Responded(i) == Done(i) /\ result[i].kind = "response"
Failed(i) == Done(i) /\ result[i].kind = "error"

\* The request carries a cookie named for the client's id token.
HasSessionCookie(r, clientId) ==
  /\ r.headers.cookie.present
  /\ \E k \in DOMAIN r.headers.cookie.pairs :
       r.headers.cookie.pairs[k].name = IdTokenCookieName(clientId)

\* The value of that cookie.
SessionCookie(r, clientId) ==
  LET pairs == r.headers.cookie.pairs
      ks == {k \in DOMAIN pairs : pairs[k].name = IdTokenCookieName(clientId)}
  IN pairs[CHOOSE k \in ks : \A j \in ks : k <= j].value

\* A 302 to the hosted authorization endpoint of the pool of cfg.
IsLoginRedirect(res, cfg) ==
  /\ res.kind = "response"
  /\ res.response.status = "302"
  /\ SubSeq(res.response.headers.location.value, 1, 6) =
       <<"https://", cfg.cognitoDomainPrefix, ".auth.", cfg.region,
         ".amazoncognito.com", "/oauth2/authorize">>

\* The path the router works on after its rewrite of directory paths.
NormalPath(uri) == IF EndsWithSlash(uri) THEN uri \o <<"index.html">> ELSE uri

\* The response to the same path and query string sent without any cookie.
AnonymousRedirect(r, cfg) ==
  ReturnResponse(
    redirectToLogin(Req(NormalPath(r.uri), r.querystring, NoCookieHeader, NoHeader),
                    cfg).value)

Protected(r) == r.uri \notin {ErrorPage, CallbackPath}

-----------------------------------------------------------------------------
(* Properties.                                                             *)

\* C1: a request to a path other than /error.html and /oauth2/callback that
\* carries no id-token cookie of the configured client is never returned for
\* forwarding; whatever the handler returns for it is the 302 login redirect,
\* and it does return that redirect whenever loadConfig gave it a config.
C1_AuthenticationGate ==
  \A i \in Invs :
    (/\ Done(i)
     /\ Protected(arrived[i])
     /\ IsConfigObject(config[i]) => ~HasSessionCookie(arrived[i], config[i].clientId))
    => /\ ~Forwarded(i)
       /\ Responded(i) => IsLoginRedirect(result[i], config[i])
       /\ IsConfigObject(config[i]) => Responded(i)

C1_Witness ==
  \E i \in Invs :
    /\ Done(i)
    /\ arrived[i] =
         Req(DashboardPath, NoQuery, CookieHeader(<<IdCookie(CfgB.clientId, ValidA)>>),
             NoHeader)
    /\ config[i] = CfgA
    /\ IsLoginRedirect(result[i], CfgA)

\* C2: a request on a path other than /error.html is forwarded only if the
\* token of its cookie passed all four checks when it was verified: signed
\* by the key published for its key id, issuer and audience equal to the
\* configured pool's and client's, and verified before its expiry.
C2_ForwardOnlyVerified ==
  \A i \in Invs :
    (Forwarded(i) /\ arrived[i].uri # ErrorPage)
    => /\ IsConfigObject(config[i])
       /\ HasSessionCookie(arrived[i], config[i].clientId)
       /\ LET tok == SessionCookie(arrived[i], config[i].clientId)
              doc == JwksDocument(JwksUri(config[i]))
          IN /\ tok.fmt = "jwt"
             /\ tok.kid \in DOMAIN doc
             /\ tok.signedBy = doc[tok.kid]
             /\ tok.iss = IssuerOf(config[i])
             /\ tok.aud = config[i].clientId
             /\ verification[i].called
             /\ verification[i].at < tok.exp

C2_Witness ==
  \E i \in Invs :
    /\ Forwarded(i)
    /\ arrived[i].uri = DashboardPath
    /\ config[i] = CfgA
    /\ token[i] = ValidA
    /\ verification[i].passed
    /\ now >= ValidA.exp

\* C3: a token whose issuer or audience differs from the values derived
\* from the loaded config is answered with the 302 redirect even when its
\* signature verifies; the endpoint queried and the issuer and audience
\* compared are functions of the invocation's config alone, so two
\* invocations with the same config query and compare the same values
\* whatever their tokens claim.
C3_IssuerAudienceIsolation ==
  /\ \A i \in Invs :
       /\ (Done(i) /\ Protected(arrived[i]) /\ token[i].fmt = "jwt"
           /\ (token[i].iss # IssuerOf(config[i]) \/ token[i].aud # config[i].clientId))
          => IsLoginRedirect(result[i], config[i])
       /\ fetching[i] # NoFetch => fetching[i] = JwksUri(config[i])
       /\ verification[i].called =>
            /\ verification[i].issuer = IssuerOf(config[i])
            /\ verification[i].audience = config[i].clientId
  /\ \A i, j \in Invs :
       (IsConfigObject(config[i]) /\ config[i] = config[j]) =>
         /\ (fetching[i] # NoFetch /\ fetching[j] # NoFetch) => fetching[i] = fetching[j]
         /\ (verification[i].called /\ verification[j].called) =>
              /\ verification[i].issuer = verification[j].issuer
              /\ verification[i].audience = verification[j].audience

C3_Witness ==
  \E i \in Invs :
    /\ Done(i)
    /\ config[i] = CfgA
    /\ token[i] = [ValidA EXCEPT !.iss = IssuerOf(CfgB)]
    /\ verification[i].called
    /\ verification[i].key = token[i].signedBy
    /\ ~verification[i].passed
    /\ IsLoginRedirect(result[i], CfgA)

\* C4: with a config loaded, every request on a protected path that is not
\* forwarded gets exactly the 302 the same path and query string get without
\* any cookie, whatever made verification fail, and never an error.
C4_UniformRedirect ==
  \A i \in Invs :
    (Done(i) /\ Protected(arrived[i]) /\ IsConfigObject(config[i]))
    => /\ ~Failed(i)
       /\ ~verification[i].passed => Responded(i)
       /\ Responded(i) => result[i] = AnonymousRedirect(arrived[i], config[i])

C4_Witness ==
  \E i \in Invs :
    /\ Done(i)
    /\ config[i] = CfgA
    /\ token[i] = [ValidA EXCEPT !.kid = KidB]
    /\ jwksAnswer[i] = "document"
    /\ result[i] = AnonymousRedirect(arrived[i], CfgA)

\* C5: a key-document fetch that fails in transport makes the handler fail:
\* it returns neither a redirect nor the request.
C5_KeyFetchFailureIsFatal ==
  \A i \in Invs : (Done(i) /\ jwksAnswer[i] = "failed") => Failed(i)

\* The GetParameter call failed, or gave a missing or empty value.
FetchFailed(res) ==
  res # NoAnswer /\ (res.rejected \/ ~res.hasParameter \/ res.value = "")

\* C6: an invocation whose config fetch fails ends with an error: nothing
\* is returned, no config is used, and the fetch is issued once only.
C6_ConfigFailureIsFatal ==
  \A i \in Invs :
    /\ ssmCalls[i] <= 1
    /\ FetchFailed(ssmAnswer[i]) =>
         /\ Failed(i)
         /\ config[i] = Unset
         /\ ssmCalls[i] = 1

C6_Witness ==
  \E i \in Invs :
    /\ arrived[i].uri = CallbackPath
    /\ ssmAnswer[i].rejected
    /\ Failed(i)

\* C7: in every request returned for forwarding, on any path, an
\* x-auth-email header is the one the gateway set from the verified token.
C7_HeaderSetByGateway ==
  \A i \in Invs :
    Forwarded(i) =>
      LET h == result[i].request.headers.xAuthEmail
      IN h.present =>
           /\ verification[i].passed
           /\ h = AuthEmailHeader([email |-> token[i].email])

\* C8: a request for /error.html is returned for forwarding exactly as it
\* arrived, whatever cookie it carries.
C8_ErrorPagePassthrough ==
  \A i \in Invs :
    (Done(i) /\ arrived[i].uri = ErrorPage) => result[i] = ReturnRequest(arrived[i])

C8_Witness ==
  \E i \in Invs :
    /\ Done(i)
    /\ arrived[i] =
         Req(ErrorPage, NoQuery,
             CookieHeader(<<OtherCookie, IdCookie(CfgA.clientId, [ValidA EXCEPT !.exp = 0])>>),
             SpoofedHeader)
    /\ result[i] = ReturnRequest(arrived[i])

\* C9: a request for /oauth2/callback is never forwarded and never
\* redirected to login; with a config loaded it gets the 200 or 400 page, the
\* same page as that query string gets without any cookie.
C9_CallbackDispatch ==
  \A i \in Invs :
    (Done(i) /\ arrived[i].uri = CallbackPath)
    => /\ ~Forwarded(i)
       /\ IsConfigObject(config[i]) => Responded(i)
       /\ Responded(i) =>
            /\ result[i].response.status \in {"200", "400"}
            /\ result[i] =
                 ReturnResponse(
                   handleOAuthCallback(
                     Req(CallbackPath, arrived[i].querystring, NoCookieHeader, NoHeader),
                     config[i]).value)

C9_Witness ==
  \E i \in Invs :
    /\ Done(i)
    /\ arrived[i].uri = CallbackPath
    /\ HasSessionCookie(arrived[i], CfgA.clientId)
    /\ config[i] = CfgA
    /\ result[i].response.status = "200"

HasConfigStructure(v) ==
  IsConfigObject(v) /\ \A f \in ConfigFields : v[f] # Undefined

\* C11: loadConfig fails whenever the parameter store gives no value, an
\* empty value or a value that does not parse as an object with the five
\* config fields; what it returns as the config always has that structure.
C11_LoadedConfigHasStructure ==
  \A i \in Invs :
    /\ config[i] # Unset => HasConfigStructure(config[i])
    /\ (ssmAnswer[i] # NoAnswer
        /\ (FetchFailed(ssmAnswer[i])
            \/ ~HasConfigStructure(JSONParse(ssmAnswer[i].value))))
       => config[i] = Unset /\ Failed(i)

\* Invocation i issues a key-document fetch in this step.
IssuesKeyFetch(i) == jwksCalls'[i] > jwksCalls[i]

\* Invocation i calls jwt.verify in this step with a key it took from the
\* cache, without a fetch of its own.
VerifiesFromCache(i) ==
  ~verification[i].called /\ verification'[i].called /\ jwksCalls'[i] = 0

\* Before this step, the client of invocation i's pool held an entry for the
\* key id of its token whose age is in the set ages.
HeldEntryAged(i, ages) ==
  /\ CacheKey(config'[i]) \in DOMAIN jwksClientCache
  /\ LET client == jwksClientCache[CacheKey(config'[i])]
     IN /\ token'[i].kid \in DOMAIN client.keys
        /\ now - client.keys[token'[i].kid].at \in ages

\* C12 as stated: no key-document fetch is issued for a key id whose cached
\* entry was fetched less than 10 minutes ago, and a key taken from the cache
\* for a verification was fetched less than 10 minutes before.
C12_KeyCacheFreshness ==
  [][\A i \in Invs :
       /\ IssuesKeyFetch(i) => ~HeldEntryAged(i, 0..(CacheMaxAge - 1))
       /\ VerifiesFromCache(i) =>
            verification'[i].at - verification'[i].fetchedAt < CacheMaxAge]_vars

\* C12 amended: no key-document fetch is issued for a key id whose cached
\* entry was fetched 10 minutes ago or less, and a key taken from the cache
\* for a verification was fetched at most 10 minutes before.
C12_KeyCacheMaxAge ==
  [][\A i \in Invs :
       /\ IssuesKeyFetch(i) => ~HeldEntryAged(i, 0..CacheMaxAge)
       /\ VerifiesFromCache(i) =>
            verification'[i].at - verification'[i].fetchedAt <= CacheMaxAge]_vars

C12_Witness ==
  \E i \in Invs :
    /\ verification[i].called
    /\ jwksCalls[i] = 0
    /\ verification[i].at - verification[i].fetchedAt = CacheMaxAge

\* The value of the state parameter of a login redirect: what follows
\* "&state=" in its Location.
StateParam(resp) ==
  LET loc == resp.headers.location.value
  IN SubSeq(loc, IndexOf(loc, "&state=") + 1, Len(loc))

\* Path and query string of a request as they arrived.
PathAndQuery(r) ==
  r.uri \o (IF r.querystring # << >> THEN <<"?">> \o r.querystring ELSE << >>)

\* C13: the state parameter of every login redirect is the percent-encoding
\* of the path and query string exactly as they arrived: "%2Fdashboard" for a
\* request to /dashboard without query string.
C13_StateIsOriginalUrl ==
  \A i \in Invs :
    (Responded(i) /\ result[i].response.status = "302")
    => StateParam(result[i].response) = encodeURIComponent(PathAndQuery(arrived[i]))

\* The query string names an error parameter.
HasErrorParam(qs) == ~ParamsGet(URLSearchParams(qs), <<"error">>).isNull

\* C14: a callback request whose query string contains an error parameter
\* gets the 400 page, never the 200 sign-in page.
C14_ErrorParamGets400 ==
  \A i \in Invs :
    (Responded(i) /\ arrived[i].uri = CallbackPath /\ HasErrorParam(arrived[i].querystring))
    => result[i].response.status = "400"

\* The entity of a character, the character itself if it has none.
Entity(c) ==
  CASE c = "&" -> <<"&", "amp;">>
    [] c = "<" -> <<"&", "lt;">>
    [] c = ">" -> <<"&", "gt;">>
    [] c = "\"" -> <<"&", "quot;">>
    [] c = "'" -> <<"&", "#39;">>
    [] OTHER -> <<c>>

\* A string with each character replaced by its entity, once.
RECURSIVE EscapedOnce(_)
EscapedOnce(s) == IF s = << >> THEN << >> ELSE Entity(Head(s)) \o EscapedOnce(Tail(s))

\* The error code and description a callback request reports.
ReportedError(r) == ParamsGet(URLSearchParams(r.querystring), <<"error">>).value
ReportedDescription(r) ==
  ParamsGet(URLSearchParams(r.querystring), <<"error_description">>).value

\* C15: the 400 page embeds the reported error and description with each of
\* & < > " ' replaced by its entity exactly once; no such character of the
\* input is left raw in the body, so no <script> tag of the input is.
C15_ErrorPageEscapedOnce ==
  \A i \in Invs :
    (Responded(i) /\ result[i].response.status = "400")
    => LET body == result[i].response.body
       IN /\ body = ErrorBody(EscapedOnce(ReportedError(arrived[i])),
                              EscapedOnce(ReportedDescription(arrived[i])))
          /\ \A k \in DOMAIN body : body[k] \notin {"<", ">", "\"", "'"}
          /\ \A k \in DOMAIN body :
               body[k] = "&" =>
                 /\ k < Len(body)
                 /\ body[k + 1] \in {"amp;", "lt;", "gt;", "quot;", "#39;"}

C15_Witness ==
  \E i \in Invs :
    /\ Responded(i)
    /\ result[i].response.status = "400"
    /\ ReportedError(arrived[i]) = AccessDenied
    /\ ReportedDescription(arrived[i]) = <<"<", "script", ">">>
    /\ result[i].response.body =
         ErrorBody(AccessDenied, <<"&", "lt;", "script", "&", "gt;">>)

\* The path ends in the separator.
IsDirectoryPath(uri) == Len(uri) > 0 /\ uri[Len(uri)] = "/"

\* C16: on every path other than /error.html and /oauth2/callback the
\* handler works, from before the token check on, on the path as it arrived
\* with index.html appended if it ended in "/", and on the path as it arrived
\* otherwise; a forwarded request carries that path and an x-auth-email header.
C16_DirectoryRewrite ==
  \A i \in Invs :
    (pc[i] # "idle" /\ Protected(arrived[i]))
    => /\ IsDirectoryPath(arrived[i].uri) =>
            request[i].uri = arrived[i].uri \o <<"index.html">>
       /\ ~IsDirectoryPath(arrived[i].uri) => request[i].uri = arrived[i].uri
       /\ Forwarded(i) =>
            /\ result[i].request.uri = request[i].uri
            /\ result[i].request.headers.xAuthEmail.present

C16_Witness ==
  \E i \in Invs :
    /\ Forwarded(i)
    /\ arrived[i].uri = RootPath
    /\ token[i] = ValidA
    /\ result[i].request.uri = <<"/", "index.html">>
    /\ result[i].request.headers.xAuthEmail.value = UserEmail

\* C17: every login redirect has status 302, a Location on the hosted
\* authorization endpoint whose host, client_id and redirect_uri are made of
\* the fields of the invocation's config and of fixed text only, and a
\* Cache-Control header of no-store; the handler answers a protected path
\* with no other response.
C17_LoginRedirectShape ==
  \A i \in Invs :
    (Responded(i) /\ Protected(arrived[i]))
    => LET resp == result[i].response
           loc == resp.headers.location.value
       IN /\ resp.status = "302"
          /\ IsConfigObject(config[i])
          /\ SubSeq(loc, 1, 17) =
               <<"https://", config[i].cognitoDomainPrefix, ".auth.", config[i].region,
                 ".amazoncognito.com", "/oauth2/authorize",
                 "?client_id=", config[i].clientId,
                 "&response_type=", "token",
                 "&scope=", "openid+email+profile",
                 "&redirect_uri=", "https://", config[i].appDomain, "/oauth2/callback",
                 "&state=">>
          /\ resp.headers.cacheControl = [key |-> "Cache-Control", value |-> "no-store"]

C17_Witness ==
  \E i \in Invs :
    /\ Responded(i)
    /\ config[i] = CfgB
    /\ token[i] = ValidA
    /\ result[i].response.status = "302"
    /\ result[i].response.headers.location.value[8] = CfgB.clientId
    /\ result[i].response.headers.cacheControl.value = "no-store"

\* C18: every session cookie the callback script writes carries HttpOnly,
\* Secure and SameSite=Lax and expires 12 hours after it was written.
C18_SessionCookieAttributes ==
  \A k \in DOMAIN documentCookie :
    LET a == documentCookie[k].attributes
    IN /\ "secure" \in DOMAIN a
       /\ "SameSite" \in DOMAIN a /\ a.SameSite = "Lax"
       /\ "expires" \in DOMAIN a /\ a.expires - SessionLifetime \in 0..now
       /\ "HttpOnly" \in DOMAIN a

\* A slug: lowercase letters and digits in groups separated by single
\* hyphens, with no hyphen at either end.
IsSlug(s) ==
  /\ s # << >>
  /\ \A k \in DOMAIN s : s[k] \in {"a", "b", "7", "-"}
  /\ s[1] # "-" /\ s[Len(s)] # "-"
  /\ \A k \in 1..(Len(s) - 1) : ~(s[k] = "-" /\ s[k + 1] = "-")

\* C19: normalizeCompanyName returns the empty string or a slug; it returns
\* a slug unchanged, and applying it to its own result changes nothing.
C19_NormalizeGivesSlug ==
  /\ passes >= 1 =>
       /\ once = << >> \/ IsSlug(once)
       /\ IsSlug(raw) => once = raw
  /\ passes = 2 => twice = once

C19_Witness ==
  /\ passes = 2
  /\ raw = <<" ", "B", ".", "-">>
  /\ once = <<"b">>
  /\ twice = <<"b">>

\* C20: once the config cache holds a value, no step of any invocation
\* replaces it with a different value.
C20_CachedConfigNeverReplaced ==
  [][Truthy(cachedConfig) => cachedConfig' = cachedConfig]_vars

\* C21: while the parameter store returns the same config to every fetch,
\* concurrent cold starts may each fetch it, and without any lock every
\* invocation proceeds past loadConfig with that config and never with an
\* absent one, and once any of them has loaded it the cache holds it.
C21_ColdStartsConverge ==
  /\ \A i \in Invs :
       /\ config[i] # Unset => config[i] = CfgA
       /\ (pc[i] \in {"getSigningKey", "done"} /\ arrived[i].uri # ErrorPage)
          => config[i] = CfgA
  /\ cachedConfig \in {Null, CfgA}
  /\ firstLoaded # Unset => cachedConfig = CfgA

C21_Witness ==
  \E i, j \in Invs :
    /\ i # j
    /\ Done(i) /\ Done(j)
    /\ ssmCalls[i] = 1 /\ ssmCalls[j] = 1
    /\ config[i] = CfgA /\ config[j] = CfgA
    /\ cachedConfig = CfgA

\* C22: a request forwarded after its token verified is the request as it
\* arrived with at most two changes: index.html appended to a path that ended
\* in "/", and the x-auth-email header set; query string, method, cookie and
\* every other header are those that arrived.
C22_ForwardFrame ==
  \A i \in Invs :
    (Forwarded(i) /\ verification[i].passed)
    => LET out == result[i].request
           in == arrived[i]
       IN /\ out.uri = IF IsDirectoryPath(in.uri) THEN in.uri \o <<"index.html">>
                       ELSE in.uri
          /\ out.querystring = in.querystring
          /\ out.method = in.method
          /\ out.headers.xAuthEmail.present
          /\ out.headers = [in.headers EXCEPT !.xAuthEmail = out.headers.xAuthEmail]
          /\ DOMAIN out = DOMAIN in

C22_Witness ==
  \E i \in Invs :
    /\ Forwarded(i)
    /\ verification[i].passed
    /\ arrived[i] =
         Req(RootPath, SomeQuery,
             CookieHeader(<<OtherCookie, IdCookie(CfgA.clientId, ValidA)>>), NoHeader)
    /\ result[i].request =
         Req(<<"/", "index.html">>, SomeQuery,
             CookieHeader(<<OtherCookie, IdCookie(CfgA.clientId, ValidA)>>),
             AuthEmailHeader([email |-> UserEmail]))

\* The position of a step in the router's order of evaluation.
Rank(p) ==
  CASE p = "idle" -> 0
    [] p \in {"callbackConfig", "authConfig"} -> 1
    [] p = "getSigningKey" -> 2
    [] p = "done" -> 3

\* The result is one of the five outcomes of the handler.
IsOutcome(res) ==
  \/ res.kind = "request"
  \/ res.kind = "response" /\ res.response.status \in {"302", "200", "400"}
  \/ res.kind = "error"

\* C23: an invocation issues at most one config fetch and at most one
\* key-document fetch, each of its steps moves it to a later step of the
\* router, it has no result before it is done and then exactly one of
\* forward, 302, 200 page, 400 page or error, and, its remote calls
\* returning or failing, every invocation that started gets done.
C23_OnePass ==
  /\ [](\A i \in Invs :
          /\ ssmCalls[i] <= 1
          /\ jwksCalls[i] <= 1
          /\ Done(i) => IsOutcome(result[i])
          /\ ~Done(i) => result[i] = NoResult)
  /\ [][\A i \in Invs :
          pc'[i] # pc[i] =>
            \/ Rank(pc'[i]) > Rank(pc[i])
            \/ pc[i] = "done" /\ pc'[i] = "idle"]_vars
  /\ \A i \in Invs : (pc[i] # "idle") ~> Done(i)

C23_Witness ==
  \E i, j \in Invs :
    /\ i # j
    /\ Forwarded(i)
    /\ ssmCalls[i] = 1
    /\ jwksCalls[i] = 1
    /\ pc[j] = "getSigningKey"

\* The fragment is missing or carries no id_token.
LacksIdToken(h) == HashEmpty(h) \/ h.id_token \in {NoToken, EmptyToken}

\* C24: once the callback script has run on a fragment that is missing or
\* has no id_token, an error text is shown, no cookie has been written and no
\* navigation is scheduled or made, and nothing of that changes afterwards;
\* a cookie is written and a navigation scheduled only with an id_token.
C24_MissingTokenShowsError ==
  /\ []((scriptPc \notin {"none", "loaded"} /\ LacksIdToken(hash))
        => /\ scriptPc = "failed"
           /\ errText # ""
           /\ documentCookie = << >>
           /\ timer = NoUrl
           /\ href = NoUrl)
  /\ []((documentCookie # << >> \/ timer # NoUrl \/ href # NoUrl)
        => /\ ~LacksIdToken(hash)
           /\ errText = "")
  /\ [][scriptPc = "failed"
        => /\ scriptPc' = "failed"
           /\ UNCHANGED <<documentCookie, timer, href, errText>>]_vars

C24_Witness ==
  /\ scriptPc = "failed"
  /\ hash.id_token = NoToken
  /\ hash.access_token = OpaqueToken
  /\ hash.state = SomeParam(DashboardUrl)
  /\ errText = "Error: Missing id_token"
  /\ documentCookie = << >>
  /\ now > 0

\* C25: with a config loaded, the token the handler gets from extractToken is
\* the value of the cookie named CognitoIdentityServiceProvider.<clientId>.idToken
\* when the cookie header carries one, and is None exactly when the header or
\* that cookie is absent; in neither case is an error raised.
C25_ExtractTokenByName ==
  \A i \in Invs :
    (pc[i] \in {"getSigningKey", "done"} /\ Protected(arrived[i])
     /\ IsConfigObject(config[i]))
    => /\ ~Failed(i)
       /\ HasSessionCookie(arrived[i], config[i].clientId)
          => /\ token[i] = SessionCookie(arrived[i], config[i].clientId)
             /\ token[i] # NoToken
       /\ ~HasSessionCookie(arrived[i], config[i].clientId) => token[i] = NoToken

C25_Witness ==
  \E i, j \in Invs :
    /\ Done(i) /\ Done(j)
    /\ config[i] = CfgA /\ config[j] = CfgA
    /\ arrived[i].headers.cookie =
         CookieHeader(<<OtherCookie, IdCookie(CfgA.clientId, ValidA)>>)
    /\ token[i] = ValidA
    /\ arrived[j].uri = DashboardPath
    /\ arrived[j].headers.cookie = NoCookieHeader
    /\ token[j] = NoToken
    /\ Responded(j)

\* The invocation in slot 1 serves the request the browser made after the
\* script navigated.
IsFollowUp == scriptPc = "navigated" /\ pc[1] # "idle" /\ arrived[1].uri # CallbackPath

\* C26: while the parameter store and the key endpoint answer, a browser that
\* got the 302 and comes back from the hosted UI with a fresh token of the
\* configured pool and the state of the redirect holds as state the URL the
\* handler built for the redirect; the script writes the token under the configured client's
\* cookie name with the app's domain and path "/" and navigates to the state
\* URL; the request for that URL carries the token and is forwarded.
C26_LoginRoundTrip ==
  /\ (scriptPc = "redirected" /\ Done(1) /\ Protected(arrived[1]))
     => hash.state.value = <<"https://", CfgA.appDomain>> \o PathAndQuery(request[1])
  /\ scriptPc \in {"scheduled", "navigated"}
     => /\ \E k \in DOMAIN documentCookie :
             /\ documentCookie[k].name = IdTokenCookieName(CfgA.clientId)
             /\ documentCookie[k].value = hash.id_token
             /\ documentCookie[k].attributes.domain = <<".", CfgA.appDomain>>
             /\ documentCookie[k].attributes.path = "/"
        /\ timer = hash.state.value
  /\ scriptPc = "navigated" => href = hash.state.value
  /\ IsFollowUp
     => /\ <<"https://", CfgA.appDomain>> \o PathAndQuery(arrived[1]) = href
        /\ HasSessionCookie(arrived[1], CfgA.clientId)
        /\ SessionCookie(arrived[1], CfgA.clientId) = hash.id_token
        /\ Done(1) => Forwarded(1)

C26_Witness ==
  /\ IsFollowUp
  /\ Forwarded(1)
  /\ Len(documentCookie) = 3
  /\ href = <<"https://", CfgA.appDomain>> \o DocsPath
              \o <<"index.html", "?">> \o ErrorDescQuery
  /\ result[1].request.uri = DocsPath \o <<"index.html">>
  /\ result[1].request.headers.xAuthEmail.value = UserEmail
  /\ now = MaxTime

\* A URL on the app domain of the config the page was rendered from.
OnAppDomain(url) == Len(url) >= 2 /\ url[1] = "https://" /\ url[2] = page.APP_DOMAIN

C28_EmailOfOwnToken ==
  \A i \in Invs :
    (Forwarded(i) /\ verification[i].passed)
    => LET tok == SessionCookie(arrived[i], config[i].clientId)
       IN result[i].request.headers.xAuthEmail =
            [present |-> TRUE, key |-> "X-Auth-Email",
             value |-> IF tok.email = Undefined THEN "unknown" ELSE tok.email]

C28_Witness ==
  \E i, j \in Invs :
    /\ i # j
    /\ now = 0
    /\ Forwarded(i) /\ Forwarded(j)
    /\ jwksCalls[i] = 1 /\ jwksCalls[j] = 1
    /\ arrived[j].headers.xAuthEmail = SpoofedHeader
    /\ result[i].request.headers.xAuthEmail.value = UserEmail
    /\ result[j].request.headers.xAuthEmail.value = "unknown"

\* C29: the step that takes a request for /error.html returns that request
\* at once, without a remote call and without reading or changing the config
\* cache or the key cache, also in a cold sandbox whose parameter store and
\* key endpoint cannot be reached.
C29_ErrorPageTouchesNothing ==
  [][\A i \in Invs :
       (pc[i] = "idle" /\ pc'[i] # "idle" /\ arrived'[i].uri = ErrorPage)
       => /\ pc'[i] = "done"
          /\ result'[i] = ReturnRequest(arrived'[i])
          /\ ssmCalls'[i] = 0
          /\ jwksCalls'[i] = 0
          /\ config'[i] = Unset
          /\ hit'[i] = hit[i]
          /\ fetching'[i] = NoFetch
          /\ cachedConfig' = cachedConfig
          /\ jwksClientCache' = jwksClientCache]_vars

C29_Witness ==
  \E i \in Invs :
    /\ Forwarded(i)
    /\ arrived[i].uri = ErrorPage
    /\ paramName = Undefined
    /\ cachedConfig = Null
    /\ firstLoaded = Unset
    /\ \A j \in Invs : ssmCalls[j] = 0 /\ jwksCalls[j] = 0
    /\ now > 0

\* The loadConfig call of invocation i fails in this step.
LoadConfigFails(i) ==
  /\ pc[i] \in {"idle", "callbackConfig", "authConfig"}
  /\ pc'[i] = "done"
  /\ result'[i].kind = "error"
  /\ config'[i] = Unset

\* Invocation i starts in this step on a path that needs the config.
StartsLoadConfig(i) == pc[i] = "idle" /\ pc'[i] # "idle" /\ arrived'[i].uri # ErrorPage

\* The loadConfig call of another invocation has failed.
OtherFailed(i) == \E j \in Invs \ {i} : Failed(j) /\ config[j] = Unset

\* C30 as stated: a loadConfig call that fails leaves the config cache
\* empty, and the next invocation issues a fresh remote fetch.
C30_FailureLeavesCacheEmpty ==
  [][\A i \in Invs :
       /\ LoadConfigFails(i) => cachedConfig' = Null
       /\ (StartsLoadConfig(i) /\ OtherFailed(i)) => ssmCalls'[i] = 1]_vars

\* C30 amended: a loadConfig call that fails does not write the config
\* cache; an invocation that then finds the cache empty runs loadConfig
\* afresh: it issues a remote fetch of its own when the parameter name is
\* set, and fails again without a fetch when it is not.
C30_FailureWritesNothing ==
  [][\A i \in Invs :
       /\ LoadConfigFails(i) => cachedConfig' = cachedConfig
       /\ (StartsLoadConfig(i) /\ ~Truthy(cachedConfig))
          => IF paramName = Undefined
             THEN /\ pc'[i] = "done"
                  /\ result'[i].kind = "error"
                  /\ ssmCalls'[i] = 0
             ELSE /\ pc'[i] \in {"callbackConfig", "authConfig"}
                  /\ ssmCalls'[i] = 1
                  /\ config'[i] = Unset]_vars

C30_Witness ==
  \E i, j \in Invs :
    /\ i # j
    /\ Failed(j)
    /\ config[j] = Unset
    /\ ssmAnswer[j] = SsmHolds(NotJson)
    /\ cachedConfig = Null
    /\ pc[i] \in {"callbackConfig", "authConfig"}
    /\ ssmCalls[i] = 1

====
